---- MODULE Spec2Model ----
(***************************************************************************)
(* freelist_t<T> (src/include/freelist.h): a fixed-capacity pool that      *)
(* hands out 32-bit generation-tagged ids for values kept densely packed.  *)
(* The three arrays _objects, _object_ids and _indices are functions over  *)
(* 0 .. _max_objects - 1; ids keep their 32-bit width, slot indices their  *)
(* 16-bit width.  Assertions are live (a debug build): a failed assert     *)
(* aborts the process.  An access outside an array, or a use of a value    *)
(* that was never written, is undefined behaviour: the call ends with      *)
(* outcome "ub" and nothing further is modelled for that process.          *)
(* A uint32_t id is kept as its two 16-bit halves [hi, lo], id = hi * 2^16 *)
(* + lo, so that arithmetic modulo 2^32 is exact.                          *)
(***************************************************************************)
EXTENDS Integers, Sequences, FiniteSets, TLC

\* ---------------------------------------------------------------- bounds
MaxCap == 3          \* largest capacity handed to the constructor
MaxInserts == 4      \* insert_alloc() runs at most this often in Spec
MaxArgGen == 2       \* highest generation of an id a caller passes in
CtorSpan == 40       \* capacities tried lie within this distance of 0 and of 0xFFFF
MaxCopyCap == 2      \* largest capacity of a pool in SpecCopy
MaxCopyCalls == 5    \* number of calls made on the two pools in SpecCopy

\* ------------------------------------------------------ program constants
index_mask == 65535
tombstone == 65535
new_object_id_add == 65536
Uint16 == 65536
CtorLimit == 65535   \* the 0xFFFF of assert(max_objects < 0xFFFF)

\* What an array element holds before the program has written it.
Indeterminate == -1

\* The uint32_t with the given halves, and the uint32_t of a number below 2^16.
Id(hi, lo) == [hi |-> hi, lo |-> lo]
ToId(n) == Id(0, n)

\* A uint32_t that was never written.
NoId == Id(Indeterminate, Indeterminate)

\* a + n modulo 2^32, for a uint32_t a and a constant 0 <= n < 2^31
AddId(a, n) ==
    LET lo == a.lo + (n % Uint16)
    IN  Id((a.hi + (n \div Uint16) + (lo \div Uint16)) % Uint16, lo % Uint16)

\* The value type T.  insert() reads a member `id` of the stored object, so
\* T is a record with an id member; tag stands for the rest of its content.
\* A carries an id member no pool issues, B one equal to the first id issued for slot 0.
Values == { [id |-> ToId(7), tag |-> "A"], [id |-> Id(1, 0), tag |-> "B"] }

\* Storage of a T that holds no constructed object.
Raw == [id |-> NoId, tag |-> "raw"]

VARIABLES
    fl,      \* the freelist_t instance: its seven data members
    other,   \* a second freelist_t instance, the `other` of copy, move and swap
    live,    \* ids handed out by insert_alloc and not erased since
    erased,  \* ids that an erase has removed
    call     \* the last call made on the instance and how it ended

vars == <<fl, other, live, erased, call>>

\* id & index_mask
SlotOf(id) == id.lo % (index_mask + 1)

\* The generation part of an id (its upper 16 bits).
GenOf(id) == id.hi

\* freelist_t(size_t max_objects)
Construct(max_objects) ==
    [ _num_objects |-> 0,
      _max_objects |-> max_objects,
      _cap_objects |-> max_objects,
      _objects     |-> [p \in 0 .. max_objects - 1 |-> Raw],
      _object_ids  |-> [p \in 0 .. max_objects - 1 |-> NoId],
      _indices     |-> [i \in 0 .. max_objects - 1 |->
                          [id |-> ToId(i), index |-> Indeterminate, next |-> (i + 1) % Uint16]],
      _enqueue     |-> 0 ]

\* freelist_t()
DefaultConstruct ==
    [ _num_objects |-> 0,
      _max_objects |-> 0,
      _cap_objects |-> 0,
      _objects     |-> [p \in {} |-> Raw],
      _object_ids  |-> [p \in {} |-> NoId],
      _indices     |-> [i \in {} |-> [id |-> NoId, index |-> Indeterminate, next |-> 0]],
      _enqueue     |-> 0 ]

\* A faulty assertion that lets 0xFFFF itself through.
CtorAssert_Inclusive(max_objects) == max_objects <= CtorLimit

\* assert(max_objects < 0xFFFF) in freelist_t(size_t)
CtorAssert(max_objects) == max_objects < CtorLimit

\* Whether _indices[s] lies inside the slot table.
InTable(p, s) == s \in DOMAIN p._indices

\* contains(id), where every read is of written memory inside the table.
Contains(p, id) ==
    LET in == p._indices[SlotOf(id)]
    IN  in.id = id /\ in.index # tombstone

\* The values contains(id) can return.  Outside the table the comparison is
\* made on whatever follows the array; on a slot whose index member was
\* never written it is made on an indeterminate value.
ContainsResults(p, id) ==
    IF ~InTable(p, SlotOf(id)) THEN BOOLEAN
    ELSE IF p._indices[SlotOf(id)].id = id
            /\ p._indices[SlotOf(id)].index = Indeterminate THEN BOOLEAN
    ELSE { Contains(p, id) }

\* A faulty insert_alloc() with `in->id += 1`.
InsertAlloc_BumpLow(p) ==
    LET s     == p._enqueue
        in    == p._indices[s]
        newid == AddId(in.id, 1)
        pos   == p._num_objects % Uint16
    IN  [p EXCEPT
            !._enqueue     = in.next,
            !._indices[s]  = [id |-> newid, index |-> pos, next |-> in.next],
            !._num_objects = p._num_objects + 1,
            !._object_ids[pos] = newid ]

\* insert_alloc(): pops the slot at _enqueue, bumps its id, appends to the dense arrays.
InsertAlloc(p) ==
    LET s     == p._enqueue
        in    == p._indices[s]
        newid == AddId(in.id, new_object_id_add)
        pos   == p._num_objects % Uint16
    IN  [p EXCEPT
            !._enqueue     = in.next,
            !._indices[s]  = [id |-> newid, index |-> pos, next |-> in.next],
            !._num_objects = p._num_objects + 1,
            !._object_ids[pos] = newid ]

\* The slot insert_alloc() returns a pointer to.
AllocSlot(p) == p._enqueue

\* new (o) T(val) at o = _objects + in->index
Construct_at(p, s, val) ==
    [p EXCEPT !._objects[p._indices[s].index] = val]

\* insert(const T&) / insert(T&&): return o->id
InsertReturn(p, s) == p._objects[p._indices[s].index].id

\* emplace(args...): return in->id
EmplaceReturn(p, s) == p._indices[s].id

\* Faulty variants of erase(id), each with one statement of the body left out.
\* Without `_indices[_object_ids[in->index] & index_mask].index = in->index`:
EraseBody_NoSlotFix(p, id) ==
    LET s    == SlotOf(id)
        pos  == p._indices[s].index
        num  == p._num_objects - 1
    IN  [p EXCEPT
            !._num_objects = num,
            !._objects     = [[p._objects EXCEPT ![pos] = p._objects[num]] EXCEPT ![num] = Raw],
            !._object_ids  = [p._object_ids EXCEPT ![pos] = p._object_ids[num]],
            !._indices     = [p._indices EXCEPT ![s].index = tombstone, ![s].next = p._enqueue],
            !._enqueue     = s ]

\* Without `*o = std::move(*last)`:
EraseBody_NoMove(p, id) ==
    LET s    == SlotOf(id)
        pos  == p._indices[s].index
        num  == p._num_objects - 1
        ids  == [p._object_ids EXCEPT ![pos] = p._object_ids[num]]
        ind1 == [p._indices EXCEPT ![SlotOf(ids[pos])].index = pos]
    IN  [p EXCEPT
            !._num_objects = num,
            !._objects     = [p._objects EXCEPT ![num] = Raw],
            !._object_ids  = ids,
            !._indices     = [ind1 EXCEPT ![s].index = tombstone, ![s].next = p._enqueue],
            !._enqueue     = s ]

\* Without `_indices[id & index_mask].next = _enqueue`:
EraseBody_NoLink(p, id) ==
    LET s    == SlotOf(id)
        pos  == p._indices[s].index
        num  == p._num_objects - 1
        ids  == [p._object_ids EXCEPT ![pos] = p._object_ids[num]]
        ind1 == [p._indices EXCEPT ![SlotOf(ids[pos])].index = pos]
    IN  [p EXCEPT
            !._num_objects = num,
            !._objects     = [[p._objects EXCEPT ![pos] = p._objects[num]] EXCEPT ![num] = Raw],
            !._object_ids  = ids,
            !._indices     = [ind1 EXCEPT ![s].index = tombstone],
            !._enqueue     = s ]

\* With the generation bumped when the slot is freed rather than when it is reused:
EraseBody_BumpId(p, id) ==
    LET s    == SlotOf(id)
        pos  == p._indices[s].index
        num  == p._num_objects - 1
        ids  == [p._object_ids EXCEPT ![pos] = p._object_ids[num]]
        ind1 == [p._indices EXCEPT ![SlotOf(ids[pos])].index = pos]
    IN  [p EXCEPT
            !._num_objects = num,
            !._objects     = [[p._objects EXCEPT ![pos] = p._objects[num]] EXCEPT ![num] = Raw],
            !._object_ids  = ids,
            !._indices     = [ind1 EXCEPT ![s].index = tombstone, ![s].next = p._enqueue,
                                          ![s].id = AddId(id, new_object_id_add)],
            !._enqueue     = s ]

\* erase(id) after its assertion has passed.
EraseBody(p, id) ==
    LET s    == SlotOf(id)
        pos  == p._indices[s].index
        num  == p._num_objects - 1
        objs == [[p._objects EXCEPT ![pos] = p._objects[num]] EXCEPT ![num] = Raw]
        ids  == [p._object_ids EXCEPT ![pos] = p._object_ids[num]]
        ind1 == [p._indices EXCEPT ![SlotOf(ids[pos])].index = pos]
        ind2 == [ind1 EXCEPT ![s].index = tombstone, ![s].next = p._enqueue]
    IN  [p EXCEPT
            !._num_objects = num,
            !._objects     = objs,
            !._object_ids  = ids,
            !._indices     = ind2,
            !._enqueue     = s ]

\* A faulty end(): `_object_ids + _max_objects`.
Iterate_ToCapacity(p) == [k \in 1 .. p._max_objects |-> p._object_ids[k - 1]]

\* The ids begin() .. end() walks over: _object_ids[0 .. _num_objects - 1].
Iterate(p) == [k \in 1 .. p._num_objects |-> p._object_ids[k - 1]]

\* operator[](id) reads only written memory inside the arrays.
LookupDefined(p, id) ==
    /\ InTable(p, SlotOf(id))
    /\ p._indices[SlotOf(id)].index \in DOMAIN p._objects
    /\ p._objects[p._indices[SlotOf(id)].index] # Raw

\* operator[](id)
Lookup(p, id) == p._objects[p._indices[SlotOf(id)].index]

\* ---------------------------------------------------------------- calls
Running == call.outcome = "returned"

\* Ids a caller may pass: every slot index of the table and the first one
\* past its end, in every generation up to MaxArgGen (ids never issued, ids
\* issued and live, ids erased and ids whose slot has been reused).
HandleArgs == { Id(g, s) : s \in 0 .. fl._max_objects, g \in 0 .. MaxArgGen }

Init ==
    /\ \E c \in 1 .. MaxCap : fl = Construct(c)
    /\ other = DefaultConstruct
    /\ live = {}
    /\ erased = {}
    /\ call = [op |-> "ctor", outcome |-> "returned"]

\* assert(_num_objects <= _max_objects) in insert_alloc()
AllocAssert(p) == p._num_objects <= p._max_objects

\* How often insert_alloc() has run: every run adds one to one slot's generation.
RECURSIVE SumGen(_, _)
SumGen(p, n) == IF n = 0 THEN 0 ELSE GenOf(p._indices[n - 1].id) + SumGen(p, n - 1)

\* The bound of the run.
GenBound == SumGen(fl, fl._max_objects) < MaxInserts

\* One of the three inserting calls: they differ in what they return.
InsertCall(name, val) ==
    /\ Running
    /\ GenBound
    /\ IF ~AllocAssert(fl)
       THEN /\ call' = [op |-> name, val |-> val, outcome |-> "assert"]
            /\ UNCHANGED <<fl, other, live, erased>>
       ELSE IF ~InTable(fl, fl._enqueue)
       THEN \* _indices[_enqueue] is read and written past the end of the table
            /\ \E nxt \in {0, fl._enqueue} :
                 fl' = [fl EXCEPT !._enqueue = nxt, !._num_objects = fl._num_objects + 1]
            /\ call' = [op |-> name, val |-> val, outcome |-> "ub"]
            /\ UNCHANGED <<other, live, erased>>
       ELSE LET s  == AllocSlot(fl)
                p1 == InsertAlloc(fl)
                p2 == Construct_at(p1, s, val)
            IN  /\ fl' = p2
                /\ live' = live \cup { p1._indices[s].id }
                /\ UNCHANGED <<other, erased>>
                /\ call' = [op |-> name, val |-> val, slot |-> s,
                            ret |-> IF name = "emplace" THEN EmplaceReturn(p2, s)
                                    ELSE InsertReturn(p2, s),
                            outcome |-> "returned"]

Insert == \E v \in Values : InsertCall("insert", v)

InsertMove == \E v \in Values : InsertCall("insert_move", v)

Emplace == \E v \in Values : InsertCall("emplace", v)

Erase ==
    \E id \in HandleArgs :
      /\ Running
      /\ \E c \in ContainsResults(fl, id) :
           IF ~c
           THEN /\ call' = [op |-> "erase", id |-> id, outcome |-> "assert"]
                /\ UNCHANGED <<fl, other, live, erased>>
           ELSE IF ContainsResults(fl, id) # {TRUE}
           THEN \* the body runs on a slot outside the table or on an index never written
                /\ call' = [op |-> "erase", id |-> id, outcome |-> "ub"]
                /\ UNCHANGED <<fl, other, live, erased>>
           ELSE /\ fl' = EraseBody(fl, id)
                /\ live' = live \ {id}
                /\ erased' = erased \cup {id}
                /\ UNCHANGED other
                /\ call' = [op |-> "erase", id |-> id, outcome |-> "returned"]

ContainsCall ==
    \E id \in HandleArgs :
      /\ Running
      /\ \E c \in ContainsResults(fl, id) :
           call' = [op |-> "contains", id |-> id, ret |-> c,
                    inside |-> InTable(fl, SlotOf(id)), outcome |-> "returned"]
      /\ UNCHANGED <<fl, other, live, erased>>

LookupCall ==
    \E id \in HandleArgs :
      /\ Running
      /\ IF LookupDefined(fl, id)
         THEN call' = [op |-> "lookup", id |-> id, ret |-> Lookup(fl, id),
                       outcome |-> "returned"]
         ELSE call' = [op |-> "lookup", id |-> id, outcome |-> "ub"]
      /\ UNCHANGED <<fl, other, live, erased>>

IterateCall ==
    /\ Running
    /\ call' = [op |-> "iterate", ret |-> Iterate(fl), outcome |-> "returned"]
    /\ UNCHANGED <<fl, other, live, erased>>

Next ==
    \/ Insert
    \/ InsertMove
    \/ Emplace
    \/ Erase
    \/ ContainsCall
    \/ LookupCall
    \/ IterateCall

Spec == Init /\ [][Next]_vars

\* ------------------------------------------------------- construction
\* Capacities handed to the constructor: the smallest ones and those on
\* either side of 0xFFFF.
CtorArgs == (0 .. CtorSpan) \cup (CtorLimit - CtorSpan .. CtorLimit + CtorSpan)

\* A pool declared with freelist_t(): nothing allocated yet.
InitCtor ==
    /\ fl = DefaultConstruct
    /\ other = DefaultConstruct
    /\ live = {}
    /\ erased = {}
    /\ call = [op |-> "decl", outcome |-> "returned"]

\* fl = freelist_t(c): the assertion, then the allocation and the free list.
ConstructCall ==
    \E c \in CtorArgs :
      /\ call.op = "decl"
      /\ IF CtorAssert(c)
         THEN /\ fl' = Construct(c)
              /\ call' = [op |-> "ctor", arg |-> c, outcome |-> "returned"]
         ELSE /\ fl' = fl
              /\ call' = [op |-> "ctor", arg |-> c, outcome |-> "assert"]
      /\ UNCHANGED <<other, live, erased>>

SpecCtor == InitCtor /\ [][ConstructCall]_vars


\* ------------------------------------------------------- claim vocabulary
InsertOps == {"insert", "insert_move", "emplace"}

\* The last call was an inserting call that returned to its caller.
Inserted == call.op \in InsertOps /\ call.outcome = "returned"

\* Every call so far stayed within its contract as far as the code can
\* tell: no inserting call ran on a full pool, and no erase or lookup ran
\* on a slot outside the table or on a dense position never written.
WithinContract == call.outcome # "ub"

\* contains(id) can only return true / can only return false.
SurelyContains(p, id) == ContainsResults(p, id) = {TRUE}
SurelyNotContains(p, id) == ContainsResults(p, id) = {FALSE}

\* A slot is occupied while an id issued for it is live, and free otherwise.
Occupied(s) == \E h \in live : SlotOf(h) = s
Slots == DOMAIN fl._indices

\* The free list followed from slot s through next links, for at most n
\* entries; it ends where a link leaves the slot table.
RECURSIVE FreeWalk(_, _, _)
FreeWalk(p, s, n) ==
    IF n = 0 \/ ~InTable(p, s) THEN <<>>
    ELSE <<s>> \o FreeWalk(p, p._indices[s].next, n - 1)

\* The free list from the current head _enqueue.
FreeList(p) == FreeWalk(p, p._enqueue, p._max_objects + 1)

\* ----------------------------------------------------------------- C1
\* C1: the id an inserting call returns is the popped slot's new id,
\* contains() of it is true at once and operator[] of it yields the value
\* just inserted.
C1_InsertReturnsHandle ==
    Inserted =>
        /\ call.ret = fl._indices[call.slot].id
        /\ SurelyContains(fl, call.ret)
        /\ Lookup(fl, call.ret) = call.val

\* ----------------------------------------------------------------- C2
\* C2: once erase(h) has completed, contains(h) stays false and no
\* inserting call returns h again.
C2_ErasedNeverValidAgain ==
    \A h \in erased :
        /\ SurelyNotContains(fl, h)
        /\ Inserted => call.ret # h

\* ----------------------------------------------------------------- C3
\* C3: in every run that stays within capacity (and passes erase only ids
\* the pool can tell apart from live ones), 0 <= count <= C, and every
\* occupied slot's dense position is below count and the handle mirror at
\* that position holds the slot's id.
C3_SlotDenseConsistent ==
    WithinContract =>
        /\ fl._num_objects \in 0 .. fl._max_objects
        /\ \A s \in Slots :
             Occupied(s) =>
                /\ fl._indices[s].index \in 0 .. fl._num_objects - 1
                /\ fl._object_ids[fl._indices[s].index] = fl._indices[s].id

\* C3's case: an erase has relocated the last value while another slot stays occupied.
C3_Witness ==
    /\ call.op = "erase" /\ call.outcome = "returned"
    /\ fl._num_objects >= 2
    /\ fl._object_ids[fl._num_objects] \in live

\* ----------------------------------------------------------------- C4
\* C4: erase(h) of a live h returns, lowers count by exactly one, and every
\* other live id is still contained and looks up the value it did before.
C4_EraseKeepsOthers ==
    [][ (call'.op = "erase" /\ call'.id \in live) =>
            /\ call'.outcome = "returned"
            /\ fl'._num_objects = fl._num_objects - 1
            /\ \A g \in live \ {call'.id} :
                 /\ SurelyContains(fl', g)
                 /\ Lookup(fl', g) = Lookup(fl, g) ]_vars

\* C4's case: the erased value was not the last one, so the value formerly
\* last now sits at the erased position and its id is still live.
C4_Witness ==
    /\ call.op = "erase" /\ call.outcome = "returned"
    /\ fl._num_objects >= 1
    /\ fl._object_ids[fl._num_objects] \in live
    /\ \E g \in live : Lookup(fl, g).tag # Lookup(fl, fl._object_ids[fl._num_objects]).tag

\* ----------------------------------------------------------------- C5
\* C5: iterating from begin() to end() yields exactly count ids, each
\* contained, none twice, and every live id among them.
C5_IterationYieldsLive ==
    call.op = "iterate" =>
        /\ Len(call.ret) = fl._num_objects
        /\ \A k \in 1 .. Len(call.ret) : SurelyContains(fl, call.ret[k])
        /\ \A j, k \in 1 .. Len(call.ret) : j # k => call.ret[j] # call.ret[k]
        /\ { call.ret[k] : k \in 1 .. Len(call.ret) } = live

\* C5's case: an iteration over a pool in which an erase has moved the last
\* id to an earlier position and a freed slot has been reused.
C5_Witness ==
    /\ call.op = "iterate"
    /\ Len(call.ret) >= 2
    /\ erased # {}
    /\ \E j, k \in 1 .. Len(call.ret) :
         j < k /\ SlotOf(call.ret[j]) > SlotOf(call.ret[k])

\* ----------------------------------------------------------------- C6
\* C6: an inserting call on a full pool ends in a fatal assertion and leaves
\* the free-list head, the slot records, the handle mirror and count alone.
C6_InsertWhenFullIsFatal ==
    [][ (call'.op \in InsertOps /\ fl._num_objects = fl._max_objects) =>
            /\ call'.outcome = "assert"
            /\ fl' = fl ]_vars

\* ----------------------------------------------------------------- C7
\* C7: erase(h) and operator[](h) on an id for which contains(h) is false
\* end in a fatal assertion and leave the pool unchanged.
C7_InvalidHandleIsFatal ==
    [][ (call'.op \in {"erase", "lookup"} /\ SurelyNotContains(fl, call'.id)) =>
            /\ call'.outcome = "assert"
            /\ fl' = fl ]_vars

\* ----------------------------------------------------------------- C8
\* C8: contains(h) reads only inside the slot table, changes nothing, and
\* returns false for a slot index >= C and for an id whose slot was freed.
C8_ContainsTotal ==
    [][ call'.op = "contains" =>
            /\ call'.inside
            /\ fl' = fl
            /\ (SlotOf(call'.id) >= fl._max_objects => call'.ret = FALSE)
            /\ (call'.id \in erased => call'.ret = FALSE) ]_vars

\* ----------------------------------------------------------------- C9
\* C9: the free list from _enqueue visits every free slot exactly once and
\* no occupied slot, so it has C - count entries before it ends.
C9_FreeListCoversFree ==
    WithinContract =>
        LET f == FreeList(fl)
        IN  /\ Len(f) = fl._max_objects - fl._num_objects
            /\ \A j, k \in 1 .. Len(f) : j # k => f[j] # f[k]
            /\ { f[k] : k \in 1 .. Len(f) } = { s \in Slots : ~Occupied(s) }

\* C9's case: slots freed by erase head the list, before slots never used.
C9_Witness ==
    /\ call.op = "erase" /\ call.outcome = "returned"
    /\ Len(FreeList(fl)) >= 2
    /\ fl._num_objects >= 1
    /\ FreeList(fl)[1] > FreeList(fl)[2]

\* ---------------------------------------------------------------- C10
\* C10: every free slot, also one never occupied since construction, has
\* dense position tombstone.
C10_FreeSlotsAreTombstone ==
    \A s \in Slots : ~Occupied(s) => fl._indices[s].index = tombstone

\* ---------------------------------------------------------------- C11
\* C11: construction succeeds for every capacity c with 1 <= c < 65536 and
\* is a fatal contract violation exactly for c >= 65536.
C11_CapacityBelow65536 ==
    call.op = "ctor" =>
        /\ (1 <= call.arg /\ call.arg < Uint16) => call.outcome = "returned"
        /\ call.outcome = "assert" <=> call.arg >= Uint16

\* C11 as the code has it: construction succeeds for every capacity below
\* 0xFFFF = 65535, leaving a pool of that capacity with count 0, and is a
\* fatal contract violation exactly for c >= 65535.
C11_CapacityBelow65535 ==
    call.op = "ctor" =>
        /\ call.arg < CtorLimit =>
             /\ call.outcome = "returned"
             /\ fl._max_objects = call.arg /\ fl._num_objects = 0
             /\ DOMAIN fl._indices = 0 .. call.arg - 1
        /\ call.outcome = "assert" <=> call.arg >= CtorLimit

\* C11's case: the largest capacity the constructor accepts.
C11_Witness ==
    /\ call.op = "ctor" /\ call.outcome = "returned"
    /\ call.arg = CtorLimit - 1
    /\ fl._indices[CtorLimit - 2].next = CtorLimit - 1

\* ---------------------------------------------------------------- C15
\* C15: an inserting call adds exactly 0x10000 modulo 2^32 to the id of the
\* slot popped from the free-list head, whose low 16 bits stay its slot
\* index; it sets that slot's dense position to the previous count, writes
\* the new id to the mirror there, raises count by one, and leaves every
\* other slot's id and dense position and every earlier mirror entry alone.
C15_InsertBumpsOneSlot ==
    [][ (call'.op \in InsertOps /\ call'.outcome = "returned") =>
          LET s == fl._enqueue
          IN  /\ fl'._indices[s].id.lo = fl._indices[s].id.lo
              /\ fl'._indices[s].id.hi = (fl._indices[s].id.hi + 1) % Uint16
              /\ fl'._indices[s].id.lo = s
              /\ fl'._indices[s].index = fl._num_objects
              /\ fl'._object_ids[fl._num_objects] = fl'._indices[s].id
              /\ fl'._num_objects = fl._num_objects + 1
              /\ \A t \in Slots \ {s} :
                   /\ fl'._indices[t].id = fl._indices[t].id
                   /\ fl'._indices[t].index = fl._indices[t].index
              /\ \A k \in 0 .. fl._num_objects - 1 :
                   fl'._object_ids[k] = fl._object_ids[k] ]_vars

\* C15's case: an insert that reuses a freed slot while other slots are occupied.
C15_Witness ==
    /\ Inserted
    /\ GenOf(fl._indices[call.slot].id) >= 2
    /\ fl._num_objects >= 2
    /\ fl._indices[call.slot].index = fl._num_objects - 1

\* ---------------------------------------------------------------- C16
\* C16: erase(h) of a valid h moves at most two dense positions: h's slot
\* becomes tombstone and the slot of the value formerly last takes h's
\* position; every other slot keeps its position, no slot's id changes,
\* and in the free list only h's next link and the head change.
C16_EraseFrame ==
    [][ (call'.op = "erase" /\ call'.outcome = "returned") =>
          LET s == SlotOf(call'.id)
              m == SlotOf(fl._object_ids[fl._num_objects - 1])
          IN  /\ fl'._indices[s].index = tombstone
              /\ m # s => fl'._indices[m].index = fl._indices[s].index
              /\ \A t \in Slots \ {s, m} : fl'._indices[t].index = fl._indices[t].index
              /\ \A t \in Slots : fl'._indices[t].id = fl._indices[t].id
              /\ fl'._indices[s].id = call'.id
              /\ \A t \in Slots \ {s} : fl'._indices[t].next = fl._indices[t].next
              /\ fl'._indices[s].next = fl._enqueue
              /\ fl'._enqueue = s ]_vars

\* C16's case: an erase of a value that was not last, with a third value
\* that stays where it was.
C16_Witness ==
    /\ call.op = "erase" /\ call.outcome = "returned"
    /\ fl._num_objects >= 2
    /\ fl._object_ids[fl._num_objects] \in live
    /\ fl._indices[SlotOf(fl._object_ids[fl._num_objects])].index = 0

\* ---------------------------------------------------------------- C17
\* C17: the inserting call that immediately follows erase(h) claims h's
\* slot and returns h + 0x10000 while contains(h) stays false; in a fresh
\* pool the inserts claim slots 0, 1, ..., C-1 in that order.
C17_ReuseMostRecentlyFreed ==
    [][ (call'.op \in InsertOps /\ fl._num_objects < fl._max_objects) =>
          /\ call'.outcome = "returned"
          /\ (call.op = "erase" /\ call.outcome = "returned") =>
                /\ call'.slot = SlotOf(call.id)
                /\ call'.ret = AddId(call.id, new_object_id_add)
                /\ SurelyNotContains(fl', call.id)
          /\ erased = {} => call'.slot = fl._num_objects ]_vars

\* ---------------------------------------------------------------- C18
\* C18: contains(h) is true only for ids an earlier inserting call issued
\* and no erase has removed since; in a fresh pool it is false for every h,
\* the generation-0 ids 0 .. C-1 included, and the ids for which it is true
\* are count many.
C18_ContainsOnlyIssued ==
    WithinContract =>
        /\ \A h \in HandleArgs :
             InTable(fl, SlotOf(h)) =>
                IF h \in live THEN SurelyContains(fl, h) ELSE SurelyNotContains(fl, h)
        /\ Cardinality({ h \in HandleArgs \cup live :
                           InTable(fl, SlotOf(h)) /\ TRUE \in ContainsResults(fl, h) })
             = fl._num_objects

\* ============================================================ two pools
\* Copy, move and swap act on two instances, fl and other.  After an
\* assignment in place _max_objects can be smaller than the arrays, so the
\* arrays' domain is the allocation and not 0 .. _max_objects - 1.

\* The number of elements the three arrays were allocated with.
Alloc(p) == Cardinality(DOMAIN p._indices)

\* freelist_t(const freelist_t& other): the arrays get other._max_objects
\* elements, _cap_objects is taken over from other.
CopyConstruct(o) ==
    [ _num_objects |-> o._num_objects,
      _max_objects |-> o._max_objects,
      _cap_objects |-> o._cap_objects,
      _objects     |-> [i \in 0 .. o._max_objects - 1 |->
                          IF i < o._num_objects THEN o._objects[i] ELSE Raw],
      _object_ids  |-> [i \in 0 .. o._max_objects - 1 |->
                          IF i < o._num_objects THEN o._object_ids[i] ELSE NoId],
      _indices     |-> [i \in 0 .. o._max_objects - 1 |-> o._indices[i]],
      _enqueue     |-> o._enqueue ]

\* The copy constructor's first loop runs to other._num_objects over arrays
\* of other._max_objects elements.
CopyConstructOverflows(o) == o._num_objects > o._max_objects

\* operator=(const freelist_t&), the branch that reallocates
Reallocates(p, o) == p._cap_objects < o._max_objects

\* operator=(const freelist_t&), the else branch: the two loops and the three
\* assignments.  Elements of *this past other's counts are left as they are.
CopyAssignInPlace(p, o) ==
    [p EXCEPT
        !._objects     = [i \in DOMAIN p._objects |->
                            IF i < o._num_objects THEN o._objects[i] ELSE p._objects[i]],
        !._object_ids  = [i \in DOMAIN p._object_ids |->
                            IF i < o._num_objects THEN o._object_ids[i] ELSE p._object_ids[i]],
        !._indices     = [i \in DOMAIN p._indices |->
                            IF i < o._max_objects THEN o._indices[i] ELSE p._indices[i]],
        !._num_objects = o._num_objects,
        !._max_objects = o._max_objects,
        !._enqueue     = o._enqueue ]

\* Whether one of the two loops of the else branch writes past the end of
\* the arrays of *this.
CopyAssignOverflows(p, o) ==
    o._num_objects > Alloc(p) \/ o._max_objects > Alloc(p)

\* A faulty swap() that forgets the line swap(_cap_objects, other._cap_objects)
Swap_KeepCap(a, b) ==
    << [b EXCEPT !._cap_objects = a._cap_objects],
       [a EXCEPT !._cap_objects = b._cap_objects] >>

\* a.swap(b): the pair of a and b afterwards; all seven members change sides.
Swap(a, b) == <<b, a>>

\* freelist_t(freelist_t&& other) : freelist_t() { swap(other); }
\* the pair of the new pool and other afterwards.
MoveConstruct(o) == Swap(DefaultConstruct, o)

\* The values the destructor's loop over [0, _num_objects) does not reach.
Leaked(p) == { i \in DOMAIN p._objects : i >= p._num_objects /\ p._objects[i] # Raw }

\* The ids of the values a pool holds.
MirrorIds(p) == { p._object_ids[i] : i \in 0 .. p._num_objects - 1 }

PoolNames == {"fl", "other"}

Pool(n) == IF n = "fl" THEN fl ELSE other

\* Pool d becomes dv and the other pool becomes sv.
PutBoth(d, dv, sv) ==
    /\ fl' = IF d = "fl" THEN dv ELSE sv
    /\ other' = IF d = "other" THEN dv ELSE sv

\* Pool d becomes dv, the other pool stays.
PutOne(d, dv) ==
    /\ fl' = IF d = "fl" THEN dv ELSE fl
    /\ other' = IF d = "other" THEN dv ELSE other

\* Two pools built with freelist_t(c).  live and erased follow the calls of
\* Spec only and stay empty here.
InitCopy ==
    /\ \E c \in 1 .. MaxCopyCap : fl = Construct(c)
    /\ \E c \in 1 .. MaxCopyCap : other = Construct(c)
    /\ live = {}
    /\ erased = {}
    /\ call = [op |-> "ctor", n |-> 0, outcome |-> "returned"]

\* The bound of the run: call.n counts the calls made so far.
CallBound == call.n < MaxCopyCalls

\* emplace on either pool; the three inserting calls change a pool alike.
EmplaceOn ==
    \E n \in PoolNames, val \in Values :
      LET p == Pool(n)
      IN  /\ Running
          /\ CallBound
          /\ UNCHANGED <<live, erased>>
          /\ IF ~AllocAssert(p)
             THEN /\ call' = [n |-> call.n + 1, op |-> "emplace", dst |-> n, val |-> val, outcome |-> "assert"]
                  /\ UNCHANGED <<fl, other>>
             ELSE IF ~InTable(p, p._enqueue) \/ p._num_objects \notin DOMAIN p._objects
             THEN \* a read or a write past the end of the arrays
                  /\ \E nxt \in {0, p._enqueue} :
                       PutOne(n, [p EXCEPT !._enqueue = nxt,
                                           !._num_objects = p._num_objects + 1])
                  /\ call' = [n |-> call.n + 1, op |-> "emplace", dst |-> n, val |-> val, outcome |-> "ub"]
             ELSE LET s  == AllocSlot(p)
                      p2 == Construct_at(InsertAlloc(p), s, val)
                  IN  /\ PutOne(n, p2)
                      /\ call' = [n |-> call.n + 1, op |-> "emplace", dst |-> n, val |-> val, slot |-> s,
                                  ret |-> EmplaceReturn(p2, s), outcome |-> "returned"]

\* erase on either pool, of an id the pool holds.
EraseOn ==
    /\ Running
    /\ CallBound
    /\ \E n \in PoolNames :
      \E id \in MirrorIds(Pool(n)) :
        LET p == Pool(n)
        IN  /\ UNCHANGED <<live, erased>>
            /\ \E c \in ContainsResults(p, id) :
                 IF ~c
                 THEN /\ call' = [n |-> call.n + 1, op |-> "erase", dst |-> n, id |-> id, outcome |-> "assert"]
                      /\ UNCHANGED <<fl, other>>
                 ELSE IF ContainsResults(p, id) # {TRUE}
                 THEN /\ call' = [n |-> call.n + 1, op |-> "erase", dst |-> n, id |-> id, outcome |-> "ub"]
                      /\ UNCHANGED <<fl, other>>
                 ELSE /\ PutOne(n, EraseBody(p, id))
                      /\ call' = [n |-> call.n + 1, op |-> "erase", dst |-> n, id |-> id,
                                  outcome |-> "returned"]

\* The pool named n ends its life and a new one is built with freelist_t(c).
ReconstructOn ==
    \E n \in PoolNames, c \in 1 .. MaxCopyCap :
      /\ Running
      /\ CallBound
      /\ PutOne(n, Construct(c))
      /\ call' = [n |-> call.n + 1, op |-> "ctor", dst |-> n, arg |-> c, outcome |-> "returned"]
      /\ UNCHANGED <<live, erased>>

\* The pool named d ends its life and a new one is copy-constructed from s.
CopyConstructCall ==
    \E d \in PoolNames, s \in PoolNames :
      /\ Running
      /\ CallBound
      /\ d # s
      /\ PutOne(d, CopyConstruct(Pool(s)))
      /\ call' = [n |-> call.n + 1, op |-> "copy_ctor", dst |-> d, src |-> s,
                  outcome |-> IF CopyConstructOverflows(Pool(s)) THEN "ub" ELSE "returned"]
      /\ UNCHANGED <<live, erased>>

\* d = s
CopyAssignCall ==
    \E d \in PoolNames, s \in PoolNames :
      LET p == Pool(d)
          o == Pool(s)
      IN  /\ Running
          /\ CallBound
          /\ UNCHANGED <<live, erased>>
          /\ IF d = s
             THEN /\ UNCHANGED <<fl, other>>
                  /\ call' = [n |-> call.n + 1, op |-> "copy_assign", dst |-> d, src |-> s, had |-> p._num_objects,
                              replaced |-> FALSE, outcome |-> "returned"]
             ELSE IF Reallocates(p, o)
             THEN /\ PutOne(d, CopyConstruct(o))
                  /\ call' = [n |-> call.n + 1, op |-> "copy_assign", dst |-> d, src |-> s, had |-> p._num_objects,
                              replaced |-> TRUE,
                              outcome |-> IF CopyConstructOverflows(o) THEN "ub"
                                          ELSE "returned"]
             ELSE /\ PutOne(d, CopyAssignInPlace(p, o))
                  /\ call' = [n |-> call.n + 1, op |-> "copy_assign", dst |-> d, src |-> s, had |-> p._num_objects,
                              replaced |-> FALSE,
                              outcome |-> IF CopyAssignOverflows(p, o) THEN "ub"
                                          ELSE "returned"]

\* The pool named d ends its life and a new one is move-constructed from s.
MoveConstructCall ==
    \E d \in PoolNames, s \in PoolNames :
      /\ Running
      /\ CallBound
      /\ d # s
      /\ PutBoth(d, MoveConstruct(Pool(s))[1], MoveConstruct(Pool(s))[2])
      /\ call' = [n |-> call.n + 1, op |-> "move_ctor", dst |-> d, src |-> s, had |-> 0,
                  outcome |-> "returned"]
      /\ UNCHANGED <<live, erased>>

\* d = std::move(s)
MoveAssignCall ==
    \E d \in PoolNames, s \in PoolNames :
      /\ Running
      /\ CallBound
      /\ UNCHANGED <<live, erased>>
      /\ call' = [n |-> call.n + 1, op |-> "move_assign", dst |-> d, src |-> s, had |-> Pool(d)._num_objects,
                  outcome |-> "returned"]
      /\ IF d = s
         THEN UNCHANGED <<fl, other>>
         ELSE PutBoth(d, Swap(Pool(d), Pool(s))[1], Swap(Pool(d), Pool(s))[2])

\* d.swap(s)
SwapCall ==
    \E d \in PoolNames, s \in PoolNames :
      /\ Running
      /\ CallBound
      /\ d # s
      /\ PutBoth(d, Swap(Pool(d), Pool(s))[1], Swap(Pool(d), Pool(s))[2])
      /\ call' = [n |-> call.n + 1, op |-> "swap", dst |-> d, src |-> s, outcome |-> "returned"]
      /\ UNCHANGED <<live, erased>>

NextCopy ==
    \/ EmplaceOn
    \/ EraseOn
    \/ ReconstructOn
    \/ CopyConstructCall
    \/ CopyAssignCall
    \/ MoveConstructCall
    \/ MoveAssignCall
    \/ SwapCall

SpecCopy == InitCopy /\ [][NextCopy]_vars

\* ------------------------------------------------- claims on two pools
\* The pool named n after the step.
PoolAfter(n) == IF n = "fl" THEN fl' ELSE other'

\* The ids a caller asks the two pools about: every slot a pool of the run
\* can have and one past it.
CopyHandleArgs == { Id(g, s) : s \in 0 .. MaxCopyCap, g \in 0 .. MaxArgGen }

\* A copy construction or a copy assignment between two different pools
\* has just been called.
CopyStep ==
    /\ call'.op \in {"copy_ctor", "copy_assign"}
    /\ call'.n = call.n + 1
    /\ call'.dst # call'.src

\* Pool d holds what pool o holds: count, slot records, free-list head,
\* handle mirror and values.
SameContent(d, o) ==
    /\ d._num_objects = o._num_objects
    /\ d._enqueue = o._enqueue
    /\ \A i \in 0 .. o._max_objects - 1 :
         InTable(d, i) /\ d._indices[i] = o._indices[i]
    /\ \A i \in 0 .. o._num_objects - 1 :
         /\ i \in DOMAIN d._objects
         /\ d._object_ids[i] = o._object_ids[i]
         /\ d._objects[i] = o._objects[i]

\* ---------------------------------------------------------------- C12
\* C12: after copy construction or copy assignment from src the copy has
\* src's count, slot records, free-list head and handle mirror; contains
\* and lookup answer alike on both for every id and iteration yields the
\* same ids; and a later insert or erase on one pool leaves the other as
\* it was.
C12_CopyAgreesWithSource ==
    [][ /\ CopyStep =>
            LET d == PoolAfter(call'.dst)
                o == Pool(call'.src)
            IN  /\ call'.outcome = "returned"
                /\ SameContent(d, o)
                /\ Iterate(d) = Iterate(o)
                /\ \A h \in CopyHandleArgs :
                     \/ SurelyContains(d, h) /\ SurelyContains(o, h)
                          /\ LookupDefined(d, h) /\ Lookup(d, h) = Lookup(o, h)
                     \/ SurelyNotContains(d, h) /\ SurelyNotContains(o, h)
        /\ (call'.op \in {"emplace", "erase"} /\ call'.n = call.n + 1) =>
            \A n \in PoolNames \ {call'.dst} : PoolAfter(n) = Pool(n) ]_vars

\* ---------------------------------------------------------------- C13
\* C13: dst = src with dst # src replaces dst's arrays by a fresh copy
\* exactly when src's capacity (_max_objects) exceeds dst's (_cap_objects),
\* and otherwise keeps dst's arrays and _cap_objects; either way dst then
\* has src's count, slot records, free-list head, mirror and values, and
\* src is as before.
C13_CopyAssignReplacesOrKeeps ==
    [][ (CopyStep /\ call'.op = "copy_assign") =>
          LET p == Pool(call'.dst)
              d == PoolAfter(call'.dst)
              o == Pool(call'.src)
          IN  /\ call'.outcome = "returned"
              /\ call'.replaced <=> o._max_objects > p._cap_objects
              /\ call'.replaced => Alloc(d) = o._max_objects
              /\ ~call'.replaced => /\ Alloc(d) = Alloc(p)
                                    /\ d._cap_objects = p._cap_objects
              /\ SameContent(d, o)
              /\ PoolAfter(call'.src) = o ]_vars

\* ---------------------------------------------------------------- C14
\* The step is a move construction or a move assignment between two
\* different pools.
MoveStep ==
    /\ call'.op \in {"move_ctor", "move_assign"}
    /\ call'.n = call.n + 1
    /\ call'.dst # call'.src

\* C14 as stated: after move construction and after move assignment the
\* destination holds what src held and src has count 0 and capacity 0,
\* whatever the destination held.
C14_MoveLeavesSourceEmpty ==
    [][ MoveStep =>
          /\ PoolAfter(call'.dst) = Pool(call'.src)
          /\ PoolAfter(call'.src)._num_objects = 0
          /\ PoolAfter(call'.src)._cap_objects = 0 ]_vars

\* C14: after move construction the new pool holds what src held and src
\* has count 0 and capacity 0; after move assignment the destination holds
\* what src held and src holds what the destination held before, so src is
\* empty only if the destination was.
C14_MoveExchanges ==
    [][ MoveStep =>
          /\ PoolAfter(call'.dst) = Pool(call'.src)
          /\ call'.op = "move_ctor" =>
                /\ PoolAfter(call'.src)._num_objects = 0
                /\ PoolAfter(call'.src)._cap_objects = 0
                /\ Alloc(PoolAfter(call'.src)) = 0
          /\ call'.op = "move_assign" =>
                PoolAfter(call'.src) = Pool(call'.dst) ]_vars

\* C14's case: a move assignment between two pools of different capacity
\* that both held values.
C14_Witness ==
    /\ call.op = "move_assign" /\ call.dst # call.src
    /\ call.had > 0
    /\ Pool(call.src)._num_objects = call.had
    /\ Pool(call.dst)._num_objects > 0
    /\ Pool(call.dst)._cap_objects # Pool(call.src)._cap_objects

\* ---------------------------------------------------------------- C19
\* C19: over construction, copy construction, copy assignment, move and
\* swap, no pool's _cap_objects and no pool's _max_objects exceeds the
\* number of elements its arrays were allocated with, and no copy
\* assignment in place writes past the end of the destination's arrays.
C19_CapacityWithinAllocation ==
    /\ WithinContract =>
          \A n \in PoolNames :
              /\ Pool(n)._cap_objects <= Alloc(Pool(n))
              /\ Pool(n)._max_objects <= Alloc(Pool(n))
    /\ ~(call.op = "copy_assign" /\ call.outcome = "ub")

\* ---------------------------------------------------------------- C20
\* C20: in every pool the constructed values are exactly those at the
\* positions below count: none is left constructed at or past count,
\* where neither erase nor the destructor will destroy it.
C20_ConstructedBelowCount ==
    WithinContract =>
        \A n \in PoolNames :
            /\ Leaked(Pool(n)) = {}
            /\ \A i \in 0 .. Pool(n)._num_objects - 1 :
                 i \in DOMAIN Pool(n)._objects /\ Pool(n)._objects[i] # Raw
====
